---- MODULE Spec2Model ----
(***************************************************************************)
(* Model of the LVGL fingerprint firmware (src/src/main.cpp): the mode     *)
(* flags, the widgets' hidden flags, the touch input device, the loop()    *)
(* and handleFingerprintEnrollment() control flow, and the sensor's        *)
(* template store.  One action per lv_timer_handler() call and per sensor  *)
(* command of the code, so that every external input (one touch read, one  *)
(* sensor response) is one step.                                           *)
(***************************************************************************)
EXTENDS Integers, Sequences, FiniteSets, TLC

(* ---------------- sensor response codes (Adafruit_Fingerprint) -------- *)
FINGERPRINT_OK == 0
FINGERPRINT_PACKETRECIEVEERR == 1
FINGERPRINT_NOFINGER == 2
FINGERPRINT_IMAGEFAIL == 3
FINGERPRINT_IMAGEMESS == 6
FINGERPRINT_FEATUREFAIL == 7
FINGERPRINT_NOTFOUND == 9
FINGERPRINT_ENROLLMISMATCH == 10
FINGERPRINT_INVALIDIMAGE == 21
FINGERPRINT_FLASHERR == 24

(* Responses each sensor command can produce. *)
GetImageResponses ==
    {FINGERPRINT_OK, FINGERPRINT_NOFINGER, FINGERPRINT_IMAGEFAIL,
     FINGERPRINT_PACKETRECIEVEERR}
Image2TzResponses ==
    {FINGERPRINT_OK, FINGERPRINT_IMAGEMESS, FINGERPRINT_FEATUREFAIL,
     FINGERPRINT_INVALIDIMAGE, FINGERPRINT_PACKETRECIEVEERR}
CreateModelResponses ==
    {FINGERPRINT_OK, FINGERPRINT_ENROLLMISMATCH, FINGERPRINT_PACKETRECIEVEERR}
StoreModelResponses ==
    {FINGERPRINT_OK, FINGERPRINT_FLASHERR, FINGERPRINT_PACKETRECIEVEERR}
SearchResponses ==
    {FINGERPRINT_OK, FINGERPRINT_NOTFOUND, FINGERPRINT_PACKETRECIEVEERR}

(* ---------------- bounds ---------------------------------------------- *)
(* The per-call command counter saturates at MaxCount. *)
MaxCount == 4

(* ---------------- text input and its conversion ----------------------- *)
(* Texts the user may have typed into inputTextArea when OK is pressed.    *)
InputTexts ==
    { <<>>, <<"0">>, <<"a">>, <<"9">>, <<"1", "2", "7">>,
      <<"1", "2", "8">>, <<"2", "6", "5">>, <<"-", "1", "2", "8">>,
      <<"-", "2", "4", "7">>, <<"9", "a">>, <<" ", "9">> }

DigitVal ==
    [c \in {"0", "1", "2", "3", "4", "5", "6", "7", "8", "9"} |->
        CASE c = "0" -> 0 [] c = "1" -> 1 [] c = "2" -> 2 [] c = "3" -> 3
          [] c = "4" -> 4 [] c = "5" -> 5 [] c = "6" -> 6 [] c = "7" -> 7
          [] c = "8" -> 8 [] c = "9" -> 9]

IsDigit(c) == c \in DOMAIN DigitVal

RECURSIVE SkipSpace(_)
SkipSpace(s) ==
    IF s # <<>> /\ Head(s) = " " THEN SkipSpace(Tail(s)) ELSE s

RECURSIVE ParseDigits(_, _)
ParseDigits(s, acc) ==
    IF s # <<>> /\ IsDigit(Head(s))
    THEN ParseDigits(Tail(s), acc * 10 + DigitVal[Head(s)])
    ELSE acc

(* atoi(): blanks, an optional sign, then the longest run of digits. *)
Atoi(s) ==
    LET t == SkipSpace(s) IN
    IF t = <<>> THEN 0
    ELSE IF Head(t) = "-" THEN 0 - ParseDigits(Tail(t), 0)
    ELSE IF Head(t) = "+" THEN ParseDigits(Tail(t), 0)
    ELSE ParseDigits(t, 0)

(* Narrowing an int to uint8_t. *)
ToUint8(n) == n % 256

(* ---------------- state ------------------------------------------------ *)
VARIABLES
    pc,              \* position of the single thread in setup()/loop()
    enrollingMode,   \* bool enrollingMode
    scanningMode,    \* bool scanningMode
    id,              \* uint8_t id
    fingerLabel,     \* text of fingerLabel: <<format>> or <<format, number>>
    scanButtonLabel, \* text of the Scan button's child label
    hidden,          \* LV_OBJ_FLAG_HIDDEN of each widget
    indevAct,        \* widget the pointer input device holds pressed
    inputText,       \* text of inputTextArea
    stored,          \* template ids in the sensor's flash
    att,             \* record of the running (or last) handleFingerprintEnrollment()
    sessionEnded,    \* an attempt ended in Success or Failed since the last valid ID
    pollResponse,    \* last getImage() response tested by a while loop of the handler
    lastScan,        \* record of the running (or last) getFingerprintID()
    serial,          \* last line written with Serial.println
    cal              \* touch calibration: the SPIFFS file and touch_calibrate()'s locals

vars == <<pc, enrollingMode, scanningMode, id, fingerLabel, scanButtonLabel,
          hidden, indevAct, inputText, stored, att, sessionEnded, pollResponse,
          lastScan, serial, cal>>

Widgets == {"scanButton", "enrollButton", "returnButton", "inputTextArea", "keyboard"}

(* What one touch read reports: released, or pressed on a widget. *)
Touches == {"released", "scanButton", "enrollButton", "returnButton", "keyboard"}

(* The inputs of one lv_timer_handler() call: the touch read, and the text *)
(* of inputTextArea, which is read only when the OK key is released.       *)
LvInputs ==
    {<<touch, <<>>>> : touch \in Touches \ {"released"}}
    \cup {<<"released", text>> :
            text \in IF indevAct = "keyboard" THEN InputTexts ELSE {<<>>}}

(* /TouchCalData3 does not exist. *)
NoFile == [len |-> -1, data |-> 0]

(* The calibration state outside touch_calibrate(): no file, locals unset. *)
CalIdle ==
    [file |-> NoFile, mounted |-> FALSE, calData |-> 0, calDataOK |-> 0,
     touch |-> 0, boot |-> 1, xfer |-> 0, read14 |-> FALSE, wroteAt |-> 0]

(* No getFingerprintID() has run since scanning was switched on. *)
ScanIdle == [n |-> 0, p |-> FINGERPRINT_OK, fingerID |-> 0, again |-> FALSE]

(* The globals the event handlers read and write, as one record. *)
G ==
    [enrollingMode |-> enrollingMode, scanningMode |-> scanningMode, id |-> id,
     fingerLabel |-> fingerLabel, scanButtonLabel |-> scanButtonLabel,
     hidden |-> hidden, indevAct |-> indevAct, inputText |-> inputText,
     serial |-> serial]

SetG(g) ==
    /\ enrollingMode' = g.enrollingMode
    /\ scanningMode' = g.scanningMode
    /\ id' = g.id
    /\ fingerLabel' = g.fingerLabel
    /\ scanButtonLabel' = g.scanButtonLabel
    /\ hidden' = g.hidden
    /\ indevAct' = g.indevAct
    /\ inputText' = g.inputText
    /\ serial' = g.serial

(* The scan record lasts while scanning stays on. *)
ScanKept(g) == lastScan' = IF g.scanningMode THEN lastScan ELSE ScanIdle

AttIdle ==
    [id0 |-> 0, stored0 |-> {}, n |-> 0, cap1 |-> "none", conv1 |-> "none",
     removed |-> FALSE, cap2 |-> "none", conv2 |-> "none", merge |-> "none",
     store |-> "none", outcome |-> "none"]

Result(r) == IF r = FINGERPRINT_OK THEN "ok" ELSE "fail"

(* What a getImage() response says about the finger. *)
Kind(r) ==
    IF r = FINGERPRINT_OK THEN "ok"
    ELSE IF r = FINGERPRINT_NOFINGER THEN "nofinger" ELSE "fail"

Count(n) == IF n < MaxCount THEN n + 1 ELSE MaxCount

(* ---------------- event handlers --------------------------------------- *)
return_button_event_handler(g) ==
    [g EXCEPT !.serial = <<"Return button clicked.">>,
              !.hidden = [@ EXCEPT !["enrollButton"] = FALSE,
                                   !["scanButton"] = FALSE,
                                   !["returnButton"] = TRUE],
              !.fingerLabel = <<"Select Enroll or Scan.">>,
              !.enrollingMode = FALSE,
              !.scanningMode = FALSE]

scan_button_event_handler(g) ==
    IF ~g.scanningMode
    THEN [g EXCEPT !.scanningMode = TRUE,
                   !.fingerLabel = <<"Scanning...">>,
                   !.scanButtonLabel = "Return",
                   !.hidden = [@ EXCEPT !["enrollButton"] = TRUE]]
    ELSE [g EXCEPT !.scanningMode = FALSE,
                   !.fingerLabel = <<"Returning to main menu...">>,
                   !.scanButtonLabel = "Scan",
                   !.hidden = [@ EXCEPT !["enrollButton"] = FALSE]]

enroll_button_event_handler(g) ==
    [g EXCEPT !.serial = <<"Enroll button clicked.">>,
              !.fingerLabel = <<"Enrolling, please enter the ID:">>,
              !.hidden = [@ EXCEPT !["enrollButton"] = TRUE,
                                   !["scanButton"] = TRUE,
                                   !["inputTextArea"] = FALSE,
                                   !["keyboard"] = FALSE]]

(* The range test of the READY handler on the narrowed id. *)
ValidId(n) == n > 0 /\ n <= 127

keyboard_event_handler(g) ==
    LET n == ToUint8(Atoi(g.inputText)) IN
    IF ValidId(n)
    THEN [g EXCEPT !.id = n,
                   !.fingerLabel = <<"Enrolling ID #%d", n>>,
                   !.hidden = [@ EXCEPT !["keyboard"] = TRUE,
                                        !["inputTextArea"] = TRUE,
                                        !["returnButton"] = FALSE],
                   !.enrollingMode = TRUE]
    ELSE [g EXCEPT !.id = n,
                   !.fingerLabel = <<"Invalid ID, please try again.">>]

return_to_main_menu(g) ==
    [g EXCEPT !.hidden = [@ EXCEPT !["enrollButton"] = FALSE,
                                   !["scanButton"] = FALSE,
                                   !["returnButton"] = TRUE],
              !.fingerLabel = <<"Select Enroll or Scan.">>,
              !.enrollingMode = FALSE,
              !.scanningMode = FALSE]

(* The event the release of widget w sends to the handler registered on it; *)
(* when OK is released inputTextArea holds the text typed before it.       *)
Dispatch(g, w, text) ==
    CASE w = "scanButton" -> scan_button_event_handler(g)
      [] w = "enrollButton" -> enroll_button_event_handler(g)
      [] w = "returnButton" -> return_button_event_handler(g)
      [] w = "keyboard" -> keyboard_event_handler([g EXCEPT !.inputText = text])
      [] OTHER -> g

(* One lv_timer_handler() call: one read of the touch source            *)
(* (lvgl_port_tp_read); a press takes hold of a visible widget, the      *)
(* release that follows sends its click (READY for the keyboard's OK).   *)
lv_timer_handler(g, touch, text) ==
    IF touch = "released"
    THEN IF g.indevAct = "none" THEN g
         ELSE Dispatch([g EXCEPT !.indevAct = "none"], g.indevAct, text)
    ELSE IF g.indevAct = "none" /\ ~g.hidden[touch]
         THEN [g EXCEPT !.indevAct = touch]
         ELSE g

(* A valid ID was entered in this step: a new session starts. *)
Ended(g, g2, cur) == IF ~g.enrollingMode /\ g2.enrollingMode THEN FALSE ELSE cur

(* ---------------- loop() ----------------------------------------------- *)
(* `if (scanningMode) scanFingerprint();` at the end of loop(). *)
AfterEnroll(g) == IF g.scanningMode THEN "S429" ELSE "L415"

Init ==
    /\ pc = "setup"
    /\ enrollingMode = FALSE
    /\ scanningMode = FALSE
    /\ id = 0
    /\ fingerLabel = <<"Select Enroll or Scan.">>
    /\ scanButtonLabel = "Scan"
    /\ hidden = [w \in Widgets |-> w \in {"returnButton", "inputTextArea", "keyboard"}]
    /\ indevAct = "none"
    /\ inputText = <<>>
    /\ stored = {}
    /\ att = AttIdle
    /\ sessionEnded = FALSE
    /\ pollResponse = FINGERPRINT_OK
    /\ lastScan = ScanIdle
    /\ serial = <<>>
    /\ cal = CalIdle

Setup_Mutant ==
    /\ pc = "setup"
    /\ \E ok \in BOOLEAN :
         /\ pc' = "L415"
         /\ serial' = IF ok THEN <<"Fingerprint sensor initialized.">>
                             ELSE <<"Fingerprint sensor initialization failed.">>
    /\ UNCHANGED <<enrollingMode, scanningMode, id, fingerLabel, scanButtonLabel,
                   hidden, indevAct, inputText, lastScan, stored, att, sessionEnded, pollResponse>>
    /\ UNCHANGED cal

(* setup(): verifyPassword() decides between loop() and the halt. *)
Setup ==
    /\ pc = "setup"
    /\ \E ok \in BOOLEAN :
         /\ pc' = IF ok THEN "L415" ELSE "halt"
         /\ serial' = IF ok THEN <<"Fingerprint sensor initialized.">>
                             ELSE <<"Fingerprint sensor initialization failed.">>
    /\ UNCHANGED <<enrollingMode, scanningMode, id, fingerLabel, scanButtonLabel,
                   hidden, indevAct, inputText, lastScan, stored, att, sessionEnded, pollResponse>>
    /\ UNCHANGED cal

(* loop(): lv_timer_handler(), then the entry of the enrollment handler   *)
(* (its guard and its first prompt) or of the scan.                       *)
LoopLvh ==
    /\ pc = "L415"
    /\ \E inp \in LvInputs :
         LET g == lv_timer_handler(G, inp[1], inp[2]) IN
         /\ sessionEnded' = Ended(G, g, sessionEnded)
         /\ IF g.enrollingMode /\ g.id # 0
            THEN /\ SetG([g EXCEPT !.fingerLabel =
                                   <<"Place finger to enroll as ID #%d", g.id>>])
                 /\ pc' = "E254"
                 /\ att' = [AttIdle EXCEPT !.id0 = g.id, !.stored0 = stored]
                 /\ lastScan' = ScanIdle
            ELSE /\ SetG(g)
                 /\ pc' = AfterEnroll(g)
                 /\ att' = AttIdle
                 /\ ScanKept(g)
    /\ UNCHANGED <<stored, pollResponse>>
    /\ UNCHANGED cal

(* ---------------- handleFingerprintEnrollment() ------------------------ *)
(* A lv_timer_handler() call between two sensor commands of the handler. *)
EnrollLvh(from, to) ==
    /\ pc = from
    /\ \E inp \in LvInputs :
         LET g == lv_timer_handler(G, inp[1], inp[2]) IN
         /\ SetG(g)
         /\ ScanKept(g)
         /\ sessionEnded' = Ended(G, g, sessionEnded)
    /\ pc' = to
    /\ UNCHANGED <<stored, att, pollResponse>>
    /\ UNCHANGED cal

EnrollLvh254 == EnrollLvh("E254", "E258")
EnrollLvh268 == EnrollLvh("E268", "E271")
EnrollLvh275 == EnrollLvh("E275", "E279")
EnrollLvh284 == EnrollLvh("E284", "E288")

(* The tests the handler makes on the sensor's responses. *)
NoFinger_Mutant(p) == p = FINGERPRINT_NOTFOUND
NoFinger(p) == p = FINGERPRINT_NOFINGER
ImageTaken(p) == p = FINGERPRINT_OK
Image2TzOk_Mutant(p) == p # FINGERPRINT_PACKETRECIEVEERR
Image2TzOk(p) == p = FINGERPRINT_OK
FingerRemoved_Mutant(p) == p # FINGERPRINT_OK
FingerRemoved(p) == p = FINGERPRINT_NOFINGER
FingerPlacedAgain(p) == p = FINGERPRINT_OK
CreateModelOk_Mutant(p) == p # FINGERPRINT_PACKETRECIEVEERR
CreateModelOk(p) == p = FINGERPRINT_OK
StoreModelOk(p) == p = FINGERPRINT_OK

(* The location handed to finger.storeModel(). *)
StoreLocation == id

(* The attempt ends with a failure text on the label. *)
Fail(text, to) ==
    /\ fingerLabel' = <<text>>
    /\ pc' = to
    /\ sessionEnded' = TRUE
    /\ UNCHANGED serial

(* int p = finger.getImage(): NoFinger returns, Ok goes on, else error. *)
GetImageFirst ==
    /\ pc = "E258"
    /\ \E p \in GetImageResponses :
         /\ IF NoFinger(p)
            THEN /\ pc' = AfterEnroll(G)
                 /\ att' = [att EXCEPT !.n = Count(@), !.cap1 = Kind(p),
                                       !.outcome = "NoFinger"]
                 /\ serial' = <<"No finger detected.">>
                 /\ UNCHANGED <<fingerLabel, sessionEnded>>
            ELSE IF ImageTaken(p)
            THEN /\ serial' = <<"Image taken">>
                 /\ fingerLabel' = <<"Image taken, processing...">>
                 /\ pc' = "E268"
                 /\ att' = [att EXCEPT !.n = Count(@), !.cap1 = Kind(p)]
                 /\ UNCHANGED sessionEnded
            ELSE /\ Fail("Error capturing image.", "E323")
                 /\ att' = [att EXCEPT !.n = Count(@), !.cap1 = Kind(p),
                                       !.outcome = "Failed"]
    /\ UNCHANGED <<pollResponse, enrollingMode, scanningMode, id, scanButtonLabel, hidden,
                   indevAct, inputText, lastScan, stored>>
    /\ UNCHANGED cal

(* p = finger.image2Tz(1) *)
Image2TzFirst ==
    /\ pc = "E271"
    /\ \E p \in Image2TzResponses :
         /\ IF Image2TzOk(p)
            THEN /\ serial' = <<"Remove finger and place it again.">>
                 /\ fingerLabel' = <<"Remove finger and place it again.">>
                 /\ pc' = "E275"
                 /\ att' = [att EXCEPT !.n = Count(@), !.conv1 = Result(p)]
                 /\ UNCHANGED sessionEnded
            ELSE /\ Fail("Failed to process image.", "E319")
                 /\ att' = [att EXCEPT !.n = Count(@), !.conv1 = Result(p),
                                       !.outcome = "Failed"]
    /\ UNCHANGED <<pollResponse, enrollingMode, scanningMode, id, scanButtonLabel, hidden,
                   indevAct, inputText, lastScan, stored>>
    /\ UNCHANGED cal

(* while (finger.getImage() != FINGERPRINT_NOFINGER) delay(100); *)
WaitRemoval ==
    /\ pc = "E279"
    /\ \E p \in GetImageResponses :
         /\ pollResponse' = p
         /\ IF FingerRemoved(p)
            THEN /\ fingerLabel' = <<"Place the same finger again.">>
                 /\ pc' = "E284"
                 /\ att' = [att EXCEPT !.n = Count(@),
                                       !.removed = (p = FINGERPRINT_NOFINGER)]
            ELSE /\ att' = [att EXCEPT !.n = Count(@)]
                 /\ UNCHANGED <<fingerLabel, pc>>
    /\ UNCHANGED <<enrollingMode, scanningMode, id, scanButtonLabel, hidden,
                   indevAct, inputText, lastScan, stored, sessionEnded, serial>>
    /\ UNCHANGED cal

(* while (finger.getImage() != FINGERPRINT_OK) delay(100); *)
WaitSecondFinger ==
    /\ pc = "E288"
    /\ \E p \in GetImageResponses :
         /\ pollResponse' = p
         /\ IF FingerPlacedAgain(p)
            THEN /\ pc' = "E293"
                 /\ att' = [att EXCEPT !.n = Count(@), !.cap2 = Result(p)]
            ELSE /\ att' = [att EXCEPT !.n = Count(@)]
                 /\ UNCHANGED pc
    /\ UNCHANGED <<enrollingMode, scanningMode, id, fingerLabel, scanButtonLabel,
                   hidden, indevAct, inputText, lastScan, stored, sessionEnded, serial>>
    /\ UNCHANGED cal

(* p = finger.image2Tz(2) *)
Image2TzSecond ==
    /\ pc = "E293"
    /\ \E p \in Image2TzResponses :
         /\ IF Image2TzOk(p)
            THEN /\ pc' = "E296"
                 /\ att' = [att EXCEPT !.n = Count(@), !.conv2 = Result(p)]
                 /\ UNCHANGED <<fingerLabel, sessionEnded, serial>>
            ELSE /\ Fail("Failed to capture second image.", "E315")
                 /\ att' = [att EXCEPT !.n = Count(@), !.conv2 = Result(p),
                                       !.outcome = "Failed"]
    /\ UNCHANGED <<pollResponse, enrollingMode, scanningMode, id, scanButtonLabel, hidden,
                   indevAct, inputText, lastScan, stored>>
    /\ UNCHANGED cal

(* p = finger.createModel() *)
CreateModel ==
    /\ pc = "E296"
    /\ \E p \in CreateModelResponses :
         /\ IF CreateModelOk(p)
            THEN /\ pc' = "E298"
                 /\ att' = [att EXCEPT !.n = Count(@), !.merge = Result(p)]
                 /\ UNCHANGED <<fingerLabel, sessionEnded, serial>>
            ELSE /\ Fail("Fingerprints did not match.", "E311")
                 /\ att' = [att EXCEPT !.n = Count(@), !.merge = "fail",
                                       !.outcome = "Failed"]
    /\ UNCHANGED <<pollResponse, enrollingMode, scanningMode, id, scanButtonLabel, hidden,
                   indevAct, inputText, lastScan, stored>>
    /\ UNCHANGED cal

(* p = finger.storeModel(id): Ok means the sensor holds the merged        *)
(* template at that location.                                             *)
StoreModel ==
    /\ pc = "E298"
    /\ \E p \in StoreModelResponses :
         /\ stored' = IF p = FINGERPRINT_OK THEN stored \cup {StoreLocation} ELSE stored
         /\ IF StoreModelOk(p)
            THEN /\ serial' = <<"Fingerprint enrolled successfully.">>
                 /\ fingerLabel' =
                        <<"Fingerprint enrolled successfully as ID #%d", id>>
                 /\ pc' = "E302"
                 /\ sessionEnded' = TRUE
                 /\ att' = [att EXCEPT !.n = Count(@), !.store = Result(p),
                                       !.outcome = "Success"]
            ELSE /\ Fail("Failed to store fingerprint.", "E307")
                 /\ att' = [att EXCEPT !.n = Count(@), !.store = Result(p),
                                       !.outcome = "Failed"]
    /\ UNCHANGED <<pollResponse, enrollingMode, scanningMode, id, scanButtonLabel, hidden,
                   indevAct, inputText, lastScan>>
    /\ UNCHANGED cal

(* Success: lv_timer_handler(); delay(2000); return_to_main_menu(); *)
EnrollLvhSuccess ==
    /\ pc = "E302"
    /\ \E inp \in LvInputs :
         LET g == lv_timer_handler(G, inp[1], inp[2])
             g2 == return_to_main_menu(g) IN
         /\ SetG(g2)
         /\ ScanKept(g2)
         /\ sessionEnded' = Ended(G, g, sessionEnded)
         /\ pc' = AfterEnroll(g2)
    /\ UNCHANGED <<stored, att, pollResponse>>
    /\ UNCHANGED cal

FailPcs == {"E307", "E311", "E315", "E319", "E323"}

(* Failure: lv_timer_handler(); and the handler returns. *)
EnrollLvhFailed ==
    /\ pc \in FailPcs
    /\ \E inp \in LvInputs :
         LET g == lv_timer_handler(G, inp[1], inp[2]) IN
         /\ SetG(g)
         /\ ScanKept(g)
         /\ sessionEnded' = Ended(G, g, sessionEnded)
         /\ pc' = AfterEnroll(g)
    /\ UNCHANGED <<stored, att, pollResponse>>
    /\ UNCHANGED cal

(* ---------------- scanFingerprint() / getFingerprintID() --------------- *)
(* The switch of scanFingerprint() on the uint8_t getFingerprintID() gave. *)
ScanReport_Mutant(fingerprintID) ==
    CASE fingerprintID = FINGERPRINT_NOTFOUND -> <<"No Finger Detected">>
      [] fingerprintID = FINGERPRINT_NOFINGER -> <<"No Match Found">>
      [] OTHER -> <<"Fingerprint ID: ", fingerprintID>>

ScanReport(fingerprintID) ==
    CASE fingerprintID = FINGERPRINT_NOFINGER -> <<"No Finger Detected">>
      [] fingerprintID = FINGERPRINT_NOTFOUND -> <<"No Match Found">>
      [] OTHER -> <<"Fingerprint ID: ", fingerprintID>>

ScanStep_Mutant(from, responses, to) ==
    /\ pc = from
    /\ \E p \in responses :
         /\ lastScan' = [n |-> IF from = "S429" THEN 1 ELSE lastScan.n + 1,
                         p |-> p, fingerID |-> 0,
                         again |-> IF from = "S429"
                                   THEN lastScan.n = 1 /\ lastScan.p = FINGERPRINT_NOFINGER
                                   ELSE lastScan.again]
         /\ IF p \notin {FINGERPRINT_OK, FINGERPRINT_IMAGEMESS}
            THEN /\ fingerLabel' = ScanReport(p)
                 /\ serial' = ScanReport(p)
                 /\ pc' = "L415"
            ELSE /\ pc' = to
                 /\ UNCHANGED <<fingerLabel, serial>>
    /\ UNCHANGED <<pollResponse, enrollingMode, scanningMode, id, scanButtonLabel, hidden,
                   indevAct, inputText, stored, att, sessionEnded>>
    /\ UNCHANGED cal

ScanStep(from, responses, to) ==
    /\ pc = from
    /\ \E p \in responses :
         /\ lastScan' = [n |-> IF from = "S429" THEN 1 ELSE lastScan.n + 1,
                         p |-> p, fingerID |-> 0,
                         again |-> IF from = "S429"
                                   THEN lastScan.n = 1 /\ lastScan.p = FINGERPRINT_NOFINGER
                                   ELSE lastScan.again]
         /\ IF p # FINGERPRINT_OK
            THEN /\ fingerLabel' = ScanReport(p)
                 /\ serial' = ScanReport(p)
                 /\ pc' = "L415"
            ELSE /\ pc' = to
                 /\ UNCHANGED <<fingerLabel, serial>>
    /\ UNCHANGED <<pollResponse, enrollingMode, scanningMode, id, scanButtonLabel, hidden,
                   indevAct, inputText, stored, att, sessionEnded>>
    /\ UNCHANGED cal

ScanGetImage == ScanStep("S429", GetImageResponses, "S436")
ScanImage2Tz == ScanStep("S436", Image2TzResponses, "S440")

(* p = finger.fingerSearch(); Ok sets finger.fingerID to a stored id. *)
ScanSearch ==
    /\ pc = "S440"
    /\ \E p \in SearchResponses :
         /\ IF p # FINGERPRINT_OK
            THEN /\ fingerLabel' = ScanReport(p)
                 /\ serial' = ScanReport(p)
                 /\ lastScan' = [lastScan EXCEPT !.n = @ + 1, !.p = p]
            ELSE \E fingerID \in stored :
                   /\ fingerLabel' = ScanReport(ToUint8(fingerID))
                   /\ serial' = ScanReport(ToUint8(fingerID))
                   /\ lastScan' = [lastScan EXCEPT !.n = @ + 1, !.p = p,
                                                   !.fingerID = fingerID]
    /\ pc' = "L415"
    /\ UNCHANGED <<pollResponse, enrollingMode, scanningMode, id, scanButtonLabel, hidden,
                   indevAct, inputText, stored, att, sessionEnded>>
    /\ UNCHANGED cal

(* ---------------- specification ---------------------------------------- *)
Next ==
    \/ Setup
    \/ LoopLvh
    \/ EnrollLvh254
    \/ GetImageFirst
    \/ EnrollLvh268
    \/ Image2TzFirst
    \/ EnrollLvh275
    \/ WaitRemoval
    \/ EnrollLvh284
    \/ WaitSecondFinger
    \/ Image2TzSecond
    \/ CreateModel
    \/ StoreModel
    \/ EnrollLvhSuccess
    \/ EnrollLvhFailed
    \/ ScanGetImage
    \/ ScanImage2Tz
    \/ ScanSearch

Spec == Init /\ [][Next]_vars

(* The processor keeps executing: some step of the program is always taken. *)
FairSpec == Spec /\ WF_vars(Next)

(* ---------------- positions -------------------------------------------- *)
(* Positions at which the next step issues an enrollment sensor command. *)
EnrollSensorPcs == {"E258", "E271", "E279", "E288", "E293", "E296", "E298"}
(* Positions inside a running handleFingerprintEnrollment() call. *)
EnrollPcs ==
    EnrollSensorPcs \cup {"E254", "E268", "E275", "E284", "E302"} \cup FailPcs
(* Positions inside scanFingerprint(). *)
ScanPcs == {"S429", "S436", "S440"}

(* ---------------- the enroll sketch (src/test/enrolltest.cpp) ---------- *)
(* The sketch has its own loop(): it reads an ID from Serial and calls     *)
(* getFingerprintEnroll() until that returns a non-zero value.  Its state  *)
(* is pc, the global id, the sensor's templates, the call record att, the  *)
(* last polled response and the last line printed; the UI variables of the *)
(* firmware do not exist in it and keep their initial values.              *)
SketchFrame ==
    UNCHANGED <<enrollingMode, scanningMode, fingerLabel, scanButtonLabel, hidden,
                indevAct, inputText, sessionEnded, lastScan, cal>>

(* Integers typed on the serial monitor (Serial.parseInt() gives 0 when    *)
(* no number arrives before its timeout).                                  *)
TypedNumbers == {-1, 0, 1, 9, 127, 128, 255, 256, 265}

SketchInit ==
    /\ pc = "K79"
    /\ enrollingMode = FALSE
    /\ scanningMode = FALSE
    /\ id = 0
    /\ fingerLabel = <<"Select Enroll or Scan.">>
    /\ scanButtonLabel = "Scan"
    /\ hidden = [w \in Widgets |-> w \in {"returnButton", "inputTextArea", "keyboard"}]
    /\ indevAct = "none"
    /\ inputText = <<>>
    /\ stored \in SUBSET {9}
    /\ att = AttIdle
    /\ sessionEnded = FALSE
    /\ pollResponse = FINGERPRINT_OK
    /\ lastScan = ScanIdle
    /\ serial = <<"Please type in the ID # (from 1 to 127) you want to save this finger as...">>
    /\ cal = CalIdle

(* One round of the while loop of readnumber(): num = Serial.parseInt(),   *)
(* narrowed to uint8_t; a non-zero num is returned into id and the first   *)
(* getFingerprintEnroll() call starts.                                     *)
readnumber ==
    /\ pc = "K79"
    /\ \E typed \in TypedNumbers :
         LET num == ToUint8(typed) IN
         IF num = 0
         THEN UNCHANGED <<pc, id, att, serial>>
         ELSE /\ id' = num
              /\ pc' = "K95"
              /\ att' = [AttIdle EXCEPT !.id0 = num, !.stored0 = stored]
              /\ serial' = <<"Waiting for valid finger to enroll as #", num>>
    /\ UNCHANGED <<stored, pollResponse>>
    /\ SketchFrame

(* What the switch on a getImage() response prints (nothing but a dot on   *)
(* NoFinger).                                                              *)
SketchImageLine(p, cur) ==
    CASE p = FINGERPRINT_OK -> <<"Image taken">>
      [] p = FINGERPRINT_NOFINGER -> cur
      [] p = FINGERPRINT_PACKETRECIEVEERR -> <<"Communication error">>
      [] p = FINGERPRINT_IMAGEFAIL -> <<"Imaging error">>
      [] OTHER -> <<"Unknown error">>

(* What the switch on an image2Tz() response prints. *)
SketchConvertLine(p) ==
    CASE p = FINGERPRINT_OK -> <<"Image converted">>
      [] p = FINGERPRINT_IMAGEMESS -> <<"Image too messy">>
      [] p = FINGERPRINT_PACKETRECIEVEERR -> <<"Communication error">>
      [] p \in {FINGERPRINT_FEATUREFAIL, FINGERPRINT_INVALIDIMAGE} ->
            <<"Could not find fingerprint features">>
      [] OTHER -> <<"Unknown error">>

(* getFingerprintEnroll() returns ret to `while (!getFingerprintEnroll());` *)
(* of loop(): zero calls it again, anything else ends loop(), which then   *)
(* prompts for the next ID.                                                *)
SketchReturn(ret) ==
    IF ToUint8(ret) = 0
    THEN "K95"
    ELSE "K79"

(* The record and the last line after a call that printed `line` returned *)
(* ret: a new call has started and printed its prompt when ret is zero.   *)
SketchAtt(ret, a) ==
    IF ToUint8(ret) = 0 THEN [AttIdle EXCEPT !.id0 = id, !.stored0 = stored] ELSE a
SketchLine(ret, line) ==
    IF ToUint8(ret) = 0 THEN <<"Waiting for valid finger to enroll as #", id>> ELSE line

(* while (p != FINGERPRINT_OK) { p = finger.getImage(); switch (p) ... } *)
SketchCapture(from, to, second) ==
    /\ pc = from
    /\ \E p \in GetImageResponses :
         /\ pollResponse' = p
         /\ serial' = SketchImageLine(p, serial)
         /\ IF p = FINGERPRINT_OK
            THEN /\ pc' = to
                 /\ att' = IF second
                           THEN [att EXCEPT !.n = Count(@), !.cap2 = Result(p)]
                           ELSE [att EXCEPT !.n = Count(@), !.cap1 = Kind(p)]
            ELSE /\ att' = [att EXCEPT !.n = Count(@)]
                 /\ UNCHANGED pc
    /\ UNCHANGED <<id, stored>>
    /\ SketchFrame

getFingerprintEnroll_95 == SketchCapture("K95", "K115", FALSE)
getFingerprintEnroll_149 == SketchCapture("K149", "K169", TRUE)

(* p = finger.image2Tz(slot); every case but Ok returns p. *)
SketchConvert(from, to, slot) ==
    /\ pc = from
    /\ \E p \in Image2TzResponses :
         /\ IF p = FINGERPRINT_OK
            THEN /\ pc' = to
                 /\ serial' = <<"Remove finger">>
                 /\ att' = IF slot = 1
                           THEN [att EXCEPT !.n = Count(@), !.conv1 = Result(p)]
                           ELSE [att EXCEPT !.n = Count(@), !.conv2 = Result(p)]
            ELSE /\ pc' = SketchReturn(p)
                 /\ serial' = SketchLine(p, SketchConvertLine(p))
                 /\ att' = SketchAtt(p,
                             IF slot = 1
                             THEN [att EXCEPT !.n = Count(@), !.conv1 = Result(p),
                                              !.outcome = "Failed"]
                             ELSE [att EXCEPT !.n = Count(@), !.conv2 = Result(p),
                                              !.outcome = "Failed"])
    /\ UNCHANGED <<id, stored, pollResponse>>
    /\ SketchFrame

getFingerprintEnroll_115 == SketchConvert("K115", "K141", 1)
getFingerprintEnroll_169 == SketchConvert("K169", "K195", 2)

(* while (p != FINGERPRINT_NOFINGER) { p = finger.getImage(); } *)
SketchRemoval(from, to, line) ==
    /\ pc = from
    /\ \E p \in GetImageResponses :
         /\ pollResponse' = p
         /\ IF p = FINGERPRINT_NOFINGER
            THEN /\ pc' = to
                 /\ serial' = line
                 /\ att' = [att EXCEPT !.n = Count(@), !.removed = TRUE]
            ELSE /\ att' = [att EXCEPT !.n = Count(@)]
                 /\ UNCHANGED <<pc, serial>>
    /\ UNCHANGED <<id, stored>>
    /\ SketchFrame

getFingerprintEnroll_141 ==
    SketchRemoval("K141", "K149", <<"Place same finger again">>)
getFingerprintEnroll_195 == SketchRemoval("K195", "K199", <<"Enrolling...">>)

(* p = finger.createModel(): Ok prints the success line and returns true, *)
(* anything else prints the code and returns false.  The sketch has no    *)
(* storeModel() call: the sensor's templates stay as they are.            *)
getFingerprintEnroll_199 ==
    /\ pc = "K199"
    /\ \E p \in CreateModelResponses :
         IF p = FINGERPRINT_OK
         THEN /\ serial' = <<"Finger enrolled successfully">>
              /\ pc' = SketchReturn(1)
              /\ att' = [att EXCEPT !.n = Count(@), !.merge = Result(p),
                                    !.outcome = "Success"]
         ELSE /\ serial' = SketchLine(0, <<p>>)
              /\ pc' = SketchReturn(0)
              /\ att' = SketchAtt(0, [att EXCEPT !.n = Count(@), !.merge = Result(p),
                                                 !.outcome = "Failed"])
    /\ UNCHANGED <<id, stored, pollResponse>>
    /\ SketchFrame

SketchNext ==
    \/ readnumber
    \/ getFingerprintEnroll_95
    \/ getFingerprintEnroll_115
    \/ getFingerprintEnroll_141
    \/ getFingerprintEnroll_149
    \/ getFingerprintEnroll_169
    \/ getFingerprintEnroll_195
    \/ getFingerprintEnroll_199

SketchSpec == SketchInit /\ [][SketchNext]_vars

(* Positions inside a running getFingerprintEnroll() call. *)
SketchCallPcs == {"K95", "K115", "K141", "K149", "K169", "K195", "K199"}

(* ---------------- touch_calibrate() over several startups --------------- *)

(* Startups followed; every startup runs touch_calibrate() once. *)
MaxBoots == 3

(* sizeof(uint16_t calData[5]) and the byte count given to readBytes/write. *)
CalDataBytes == 10
CalFileBytes == 14

(* Calibration data is named by the startup whose calibrateTouch() made   *)
(* it; Earlier names data made before the first startup followed, and 0   *)
(* a calData that was never completely filled.                           *)
Earlier == -1

(* Sizes of a /TouchCalData3 found at the first startup. *)
FileSizes == {0, 10, 12, 14, 16}

CalFrame ==
    UNCHANGED <<enrollingMode, scanningMode, id, hidden, fingerLabel,
                scanButtonLabel, indevAct, inputText, stored, att,
                pollResponse, sessionEnded, lastScan>>

CalInit ==
    /\ pc = "T54"
    /\ enrollingMode = FALSE
    /\ scanningMode = FALSE
    /\ id = 0
    /\ fingerLabel = <<"Select Enroll or Scan.">>
    /\ scanButtonLabel = "Scan"
    /\ hidden = [w \in Widgets |-> w \in {"returnButton", "inputTextArea", "keyboard"}]
    /\ indevAct = "none"
    /\ inputText = <<>>
    /\ stored = {}
    /\ att = AttIdle
    /\ pollResponse = FINGERPRINT_OK
    /\ sessionEnded = FALSE
    /\ lastScan = ScanIdle
    /\ serial = <<>>
    /\ \E f \in {NoFile} \cup {[len |-> n, data |-> Earlier] : n \in FileSizes} :
           cal = [CalIdle EXCEPT !.file = f]

(* if (!SPIFFS.begin()) { println; SPIFFS.format(); SPIFFS.begin(); } *)
touch_calibrate_54 ==
    /\ pc = "T54"
    /\ \E ok \in BOOLEAN, again \in BOOLEAN :
          IF ok
          THEN /\ cal' = [cal EXCEPT !.mounted = TRUE]
               /\ serial' = serial
          ELSE /\ cal' = [cal EXCEPT !.file = NoFile, !.mounted = again]
               /\ serial' = <<"Formatting file system">>
    /\ pc' = "T61"
    /\ CalFrame

(* Bytes readBytes(calData, 14) takes from a file of len bytes. *)
readBytes(len) == IF len < CalFileBytes THEN len ELSE CalFileBytes

(* if (exists) { f = open("r"); if (f) { if (readBytes(calData, 14) == 14) *)
(* calDataOK = 1; } }: a transfer of more than sizeof(calData) bytes      *)
(* writes past the array, after which calDataOK and the rest of the       *)
(* frame hold what the build made of it.                                  *)
touch_calibrate_61 ==
    /\ pc = "T61"
    /\ IF cal.mounted /\ cal.file # NoFile
       THEN \E opened \in BOOLEAN :
              IF opened
              THEN LET r == readBytes(cal.file.len)
                   IN \E crash \in (IF r > CalDataBytes THEN BOOLEAN ELSE {FALSE}),
                         ok \in (IF r = CalFileBytes THEN {1}
                                 ELSE IF r > CalDataBytes THEN {0, 1} ELSE {0}) :
                        /\ cal' = [cal EXCEPT
                                      !.calData = IF r >= CalDataBytes
                                                  THEN cal.file.data ELSE 0,
                                      !.calDataOK = ok,
                                      !.xfer = r,
                                      !.read14 = (r = CalFileBytes)]
                        /\ pc' = IF crash THEN "crash" ELSE "T69"
              ELSE /\ cal' = cal
                   /\ pc' = "T69"
       ELSE /\ cal' = cal
            /\ pc' = "T69"
    /\ UNCHANGED serial
    /\ CalFrame

(* if (calDataOK) tft.setTouch(calData); else { ...; tft.calibrateTouch(calData, ...); *)
touch_calibrate_69 ==
    /\ pc = "T69"
    /\ IF cal.calDataOK # 0
       THEN /\ cal' = [cal EXCEPT !.touch = cal.calData]
            /\ pc' = "done"
       ELSE /\ cal' = [cal EXCEPT !.calData = cal.boot, !.touch = cal.boot]
            /\ pc' = "T81"
    /\ UNCHANGED serial
    /\ CalFrame

(* f = open("w"); if (f) { f.write(calData, 14); f.close(); } } *)
touch_calibrate_81 ==
    /\ pc = "T81"
    /\ \E opened \in (IF cal.mounted THEN BOOLEAN ELSE {FALSE}) :
          IF opened
          THEN cal' = [cal EXCEPT
                         !.file = [len |-> CalFileBytes, data |-> cal.calData],
                         !.xfer = CalFileBytes,
                         !.wroteAt = IF cal.wroteAt = 0 THEN cal.boot ELSE cal.wroteAt]
          ELSE cal' = cal
    /\ pc' = "done"
    /\ UNCHANGED serial
    /\ CalFrame

(* The next power-up: setup() calls touch_calibrate() with fresh locals;  *)
(* the file system keeps what it held.                                    *)
Restart ==
    /\ pc \in {"done", "crash"}
    /\ cal.boot < MaxBoots
    /\ cal' = [CalIdle EXCEPT !.file = cal.file, !.boot = cal.boot + 1,
                              !.wroteAt = cal.wroteAt]
    /\ pc' = "T54"
    /\ serial' = <<>>
    /\ CalFrame

CalNext ==
    \/ touch_calibrate_54
    \/ touch_calibrate_61
    \/ touch_calibrate_69
    \/ touch_calibrate_81
    \/ Restart

CalSpec == CalInit /\ [][CalNext]_vars

(* ---------------- properties ------------------------------------------- *)

(* C1: enrollingMode and scanningMode are never both true, whatever UI    *)
(* events and loop() iterations happened, also for events processed by    *)
(* the lv_timer_handler() calls inside handleFingerprintEnrollment().     *)
C1_ModesExclusive == ~(enrollingMode /\ scanningMode)

(* C2: UI exclusivity: while scanningMode is true the Enroll button, the   *)
(* keyboard and the text area are hidden; while the keyboard is shown or   *)
(* enrollingMode is true the Scan button is hidden.                        *)
C2_UiExclusive ==
    /\ scanningMode =>
          hidden["enrollButton"] /\ hidden["keyboard"] /\ hidden["inputTextArea"]
    /\ (~hidden["keyboard"] \/ enrollingMode) => hidden["scanButton"]

(* C3: the sensor's template store changes only in the storeModel step of  *)
(* an attempt whose image2Tz(1), image2Tz(2) and createModel returned Ok,  *)
(* and an attempt that failed has left the store as it found it.           *)
C3_NoPartialStore ==
    /\ [](att.outcome = "Failed" => stored = att.stored0)
    /\ [](pc = "E298" =>
            att.conv1 = "ok" /\ att.conv2 = "ok" /\ att.merge = "ok")
    /\ [][stored' # stored =>
            /\ pc = "E298"
            /\ att.conv1 = "ok" /\ att.conv2 = "ok" /\ att.merge = "ok"
            /\ att'.outcome = "Success"
            /\ Cardinality(stored') <= Cardinality(stored) + 1]_vars

(* An attempt failed at the merge while the store already held a template. *)
C3_Witness == pc = "E311" /\ att.merge = "fail" /\ stored # {}

(* C4 (as claimed): enrollment is active only on a text whose integer      *)
(* value is in [1,127]; any other value leaves enrollingMode false and the *)
(* keyboard shown.                                                         *)
C4_RangeValidated ==
    Atoi(inputText) \notin 1..127 =>
        /\ ~enrollingMode
        /\ inputText # <<>> => ~hidden["keyboard"]

(* Texts that are not a number: after an optional sign, no character at    *)
(* all or a character that is no digit.                                    *)
NotANumber(text) ==
    LET body == IF text # <<>> /\ Head(text) \in {"-", "+"} THEN Tail(text) ELSE text
    IN  body = <<>> \/ \E i \in DOMAIN body : ~IsDigit(body[i])

(* C5 (as claimed): with an entered ID of 0 or a text that is not a number *)
(* enrollingMode stays false, id is 0 and no enrollment command is issued. *)
C5_NonNumericStaysAwaiting ==
    (Atoi(inputText) = 0 \/ NotANumber(inputText)) =>
        ~enrollingMode /\ id = 0 /\ pc \notin EnrollPcs

(* C6: an attempt for an id in [1,127] whose captures, conversions, merge  *)
(* and store all returned Ok, with NoFinger seen in between, is at Success *)
(* and the store is the old store plus that id: one template more, or the  *)
(* same number when the id was stored before.                              *)
AllOk ==
    /\ att.cap1 = "ok" /\ att.conv1 = "ok" /\ att.removed /\ att.cap2 = "ok"
    /\ att.conv2 = "ok" /\ att.merge = "ok" /\ att.store = "ok"

C6_AllOkEndsInSuccess ==
    (att.id0 \in 1..127 /\ AllOk) =>
        /\ att.outcome = "Success"
        /\ stored = att.stored0 \cup {att.id0}
        /\ Cardinality(stored) =
              Cardinality(att.stored0) + (IF att.id0 \in att.stored0 THEN 0 ELSE 1)

(* C7: the removal wait is left only on a NoFinger response, so the second *)
(* capture and image2Tz(2) happen only after NoFinger was observed.        *)
C7_RemovalDebounce ==
    /\ [](pc \in {"E284", "E288", "E293"} => att.removed)
    /\ [](att.conv2 # "none" => att.removed)
    /\ [][(pc = "E279" /\ pc' # "E279") =>
             pollResponse' = FINGERPRINT_NOFINGER]_vars

(* The removal wait was left on NoFinger after at least one poll that saw  *)
(* the finger still present (two commands before the wait, two polls).     *)
C7_Witness ==
    pc = "E284" /\ att.removed /\ att.conv1 = "ok" /\ att.n = MaxCount /\ MaxCount >= 4

(* C8 (as claimed): a handleFingerprintEnrollment() call issues at most    *)
(* one sensor command.                                                     *)
C8_OneCommandPerTick == att.n <= 1

(* C9 (as claimed): every handleFingerprintEnrollment() call returns to    *)
(* loop().                                                                 *)
C9_TickTerminates == (pc \in EnrollPcs) ~> (pc \notin EnrollPcs)

(* C10 (as claimed): after an attempt ended in Success or Failed no        *)
(* enrollment command is issued until an ID is entered again.              *)
C10_TerminalUntilReset == sessionEnded => pc \notin EnrollSensorPcs

(* C11: a failed image2Tz(1) or image2Tz(2) ends the attempt as a failure  *)
(* with no createModel and no storeModel; createModel is issued only on    *)
(* two slots converted in the same attempt, and every attempt starts at    *)
(* the first capture with nothing converted yet.                           *)
C11_ConversionFailureEndsAttempt ==
    /\ []((att.conv1 = "fail" \/ att.conv2 = "fail") =>
            /\ att.outcome = "Failed"
            /\ att.merge = "none" /\ att.store = "none"
            /\ stored = att.stored0
            /\ pc \notin EnrollSensorPcs)
    /\ [](att.conv1 = "fail" => att.cap2 = "none" /\ att.conv2 = "none")
    /\ [](pc = "E296" => att.conv1 = "ok" /\ att.conv2 = "ok")
    /\ [](pc \in {"E254", "E258"} =>
            att.n = 0 /\ att.conv1 = "none" /\ att.conv2 = "none")
    /\ [][(pc \notin EnrollPcs /\ pc' \in EnrollPcs) => pc' = "E254"]_vars

(* The second conversion failed after the first one had succeeded. *)
C11_Witness == pc = "E315" /\ att.conv1 = "ok" /\ att.conv2 = "fail"

(* C12 (as claimed): while the handler waits for the second finger a       *)
(* getImage response other than Ok and NoFinger ends the attempt, so the   *)
(* wait is never continued after such a response.                          *)
C12_SecondCaptureFailureEnds ==
    pc = "E288" => pollResponse \in {FINGERPRINT_OK, FINGERPRINT_NOFINGER}

(* C13 (as claimed): once a Return click has switched enrollingMode off,   *)
(* the running handler issues no further sensor command.                   *)
C13_CancelStopsSession == pc \in EnrollSensorPcs => enrollingMode

(* Enroll was clicked, the ID keyboard is shown, no valid ID entered yet. *)
AwaitingID ==
    /\ ~enrollingMode /\ ~scanningMode
    /\ ~hidden["keyboard"] /\ hidden["enrollButton"] /\ hidden["scanButton"]

(* The main menu: both modes off, Enroll and Scan offered, no keyboard. *)
MainMenu(g) ==
    /\ ~g.enrollingMode /\ ~g.scanningMode
    /\ ~g.hidden["enrollButton"] /\ ~g.hidden["scanButton"] /\ g.hidden["keyboard"]

(* C14 (as claimed): in AwaitingID some visible widget, clicked without a  *)
(* valid ID in the text area, leads back to the main menu.                 *)
C14_CancelAvailable ==
    AwaitingID =>
        \E w \in Widgets, text \in InputTexts :
            /\ ~hidden[w]
            /\ ~ValidId(ToUint8(Atoi(text)))
            /\ MainMenu(Dispatch(G, w, text))

(* C15 (as claimed): scanFingerprint() never runs in a loop() iteration in *)
(* which handleFingerprintEnrollment() issued a sensor command.            *)
C15_OneEnginePerIteration == pc \in ScanPcs => att.n = 0

(* C16 (as claimed): after capture, conversion and search a search that    *)
(* returned Ok with template fingerID shows 'Fingerprint ID: fingerID',    *)
(* and one that returned NotFound shows 'No Match Found'.                  *)
C16_MatchReportsId ==
    (pc = "L415" /\ lastScan.n = 3) =>
        /\ lastScan.p = FINGERPRINT_OK =>
              fingerLabel = <<"Fingerprint ID: ", lastScan.fingerID>>
        /\ lastScan.p = FINGERPRINT_NOTFOUND => fingerLabel = <<"No Match Found">>

(* C17 (as claimed): a scan that ended on a failure other than NoFinger    *)
(* and NotFound does not show 'Fingerprint ID: n', and scanning stays on.  *)
C17_FailureNotShownAsMatch ==
    (pc = "L415" /\ lastScan.n > 0
       /\ lastScan.p \notin {FINGERPRINT_OK, FINGERPRINT_NOFINGER, FINGERPRINT_NOTFOUND}) =>
        /\ Head(fingerLabel) # "Fingerprint ID: "
        /\ scanningMode

(* C18: a scan whose capture returns NoFinger ends there: no conversion,   *)
(* no search, both mode flags as they were (scanningMode true), and the    *)
(* label shows 'No Finger Detected'; so it is after any number of them.    *)
C18_NoFingerScanKeepsModes ==
    /\ [](pc \in ScanPcs => scanningMode)
    /\ [][(pc = "S429" /\ lastScan'.p = FINGERPRINT_NOFINGER) =>
            /\ pc' = "L415" /\ lastScan'.n = 1
            /\ scanningMode' /\ enrollingMode' = enrollingMode
            /\ fingerLabel' = <<"No Finger Detected">>
            /\ stored' = stored]_vars
    /\ []((pc = "L415" /\ lastScan.n = 1 /\ lastScan.p = FINGERPRINT_NOFINGER) =>
            scanningMode /\ fingerLabel = <<"No Finger Detected">>)

(* Two scans in a row found no finger, with enrollment off. *)
C18_Witness ==
    /\ pc = "L415" /\ lastScan.again /\ lastScan.p = FINGERPRINT_NOFINGER
    /\ scanningMode /\ ~enrollingMode /\ fingerLabel = <<"No Finger Detected">>

(* C19 (as claimed): scanningMode turns false only in a step that sends    *)
(* the click of the Scan button or of the Return button.                   *)
C19_ScanStopsOnlyByToggle ==
    [][(scanningMode /\ ~scanningMode') =>
          indevAct \in {"scanButton", "returnButton"} /\ indevAct' = "none"]_vars

C21_SuccessTextNamesId ==
    (att.id0 \in 1..127 /\ AllOk) =>
        /\ att.outcome = "Success"
        /\ fingerLabel = <<"Fingerprint enrolled successfully as ID #%d", att.id0>>

(* C22: after a failed verifyPassword() the program is halted in setup():  *)
(* no step follows, so no UI event is processed, no mode flag is set and   *)
(* no sensor command is issued.                                            *)
C22_HaltOnVerifyFailure ==
    /\ [](serial = <<"Fingerprint sensor initialization failed.">> =>
            /\ pc = "halt"
            /\ ~enrollingMode /\ ~scanningMode /\ id = 0
            /\ indevAct = "none" /\ inputText = <<>>
            /\ fingerLabel = <<"Select Enroll or Scan.">>
            /\ att = AttIdle /\ lastScan = ScanIdle /\ stored = {})
    /\ [][pc # "halt"]_vars

(* The sensor did not answer and setup() is in its `while (1);`. *)
C22_Witness ==
    pc = "halt" /\ serial = <<"Fingerprint sensor initialization failed.">>

(* The failure texts of handleFingerprintEnrollment(). *)
FailureTexts ==
    { <<"Error capturing image.">>, <<"Failed to process image.">>,
      <<"Failed to capture second image.">>, <<"Fingerprints did not match.">>,
      <<"Failed to store fingerprint.">> }

(* C23 (as claimed): when an attempt has failed the label shows the        *)
(* failure text and the same failure was written to Serial.                *)
C23_FailuresShownAndLogged ==
    pc \in FailPcs => fingerLabel \in FailureTexts /\ serial \in FailureTexts

(* C26: getFingerprintID() issues getImage, image2Tz and fingerSearch in   *)
(* this order, each at most once and only after the one before returned   *)
(* Ok, and returns at the first response that is not Ok.                   *)
C26_ScanOrder ==
    /\ [](pc = "S436" => lastScan.n = 1 /\ lastScan.p = FINGERPRINT_OK)
    /\ [](pc = "S440" => lastScan.n = 2 /\ lastScan.p = FINGERPRINT_OK)
    /\ [](lastScan.n <= 3)
    /\ [][(pc \in ScanPcs /\ lastScan'.p # FINGERPRINT_OK) => pc' = "L415"]_vars
    /\ [][pc = "S429" => lastScan'.n = 1]_vars
    /\ [][(pc \in {"S436", "S440"}) => lastScan'.n = lastScan.n + 1]_vars

(* A scan issued all three commands: capture and conversion returned Ok. *)
C26_Witness == pc = "L415" /\ lastScan.n = 3 /\ lastScan.p = FINGERPRINT_NOTFOUND

(* C29 (as claimed): storeModel() is called with the id the attempt was    *)
(* started with, a value in [1,127].                                       *)
C29_StoreUsesValidatedId ==
    pc = "E298" => StoreLocation \in 1..127 /\ StoreLocation = att.id0

(* C30 (as claimed): the Scan button reads 'Return' exactly when           *)
(* scanningMode is true, and then the Enroll button is hidden.             *)
C30_ScanButtonMatchesMode ==
    /\ scanButtonLabel = "Return" <=> scanningMode
    /\ scanningMode => hidden["enrollButton"]

(* C24 (as claimed, enroll sketch): when 'Finger enrolled successfully'    *)
(* has been printed the sensor's templates contain the entered id.         *)
C24_SketchSuccessIsStored ==
    serial = <<"Finger enrolled successfully">> => id \in stored

(* C27 (as claimed, enroll sketch): the loop around getFingerprintEnroll() *)
(* is left only by a call in which both conversions and createModel        *)
(* returned Ok; a failed call is followed by another call.                 *)
C27_SketchRepeatsUntilSuccess ==
    [][(pc \in SketchCallPcs /\ pc' = "K79") =>
          att'.conv1 = "ok" /\ att'.conv2 = "ok" /\ att'.merge = "ok"]_vars

(* C28 (as claimed, enroll sketch): the id handed to getFingerprintEnroll() *)
(* is never 0 and always in [1,127].                                       *)
C28_SketchIdInRange == pc \in SketchCallPcs => id \in 1..127

(* C25: touch_calibrate() writes the calibration file only when no full   *)
(* 14 bytes were read from a stored one; when 14 bytes were read the      *)
(* stored data is applied and the call neither recalibrates nor rewrites; *)
(* and once a write has succeeded, every later startup ends with the      *)
(* stored data applied, without a new calibration.                        *)
C25_CalibrationReused ==
    /\ [][(pc = "T81" /\ cal'.file # cal.file) => ~cal.read14]_vars
    /\ [](cal.read14 =>
            /\ pc \notin {"T81", "crash"}
            /\ pc = "done" => cal.touch = cal.file.data)
    /\ []((cal.wroteAt # 0 /\ cal.boot > cal.wroteAt) =>
            /\ pc \notin {"T81", "crash"}
            /\ pc = "done" => cal.touch = cal.wroteAt)

(* C31: touch_calibrate() never transfers, with readBytes or write, more  *)
(* bytes to or from calData than the array holds.                         *)
C31_TransferFitsBuffer == cal.xfer <= CalDataBytes

====
